---- MODULE Spec2Model ----
(***************************************************************************)
(* Model of the Paytm MCP payment server: the seven tool functions of      *)
(* paytm_mcp.py, the three services they delegate to, the date helper and  *)
(* the retry decorator of utils/base_service.py.                           *)
(*                                                                         *)
(* Python values are tagged tuples: <<"None">>, <<"str", s>>,              *)
(* <<"bool", b>>, <<"num", n>>, <<"dict", pairs>> (pairs in insertion      *)
(* order), and <<"ist", n>> for the string strftime produces for the       *)
(* instant n (seconds), 'YYYY-MM-DDTHH:MM:SS+05:30'.                       *)
(***************************************************************************)
EXTENDS Integers, Sequences, FiniteSets, TLC

VARIABLES
    mid,            \* self.mid of the three service objects
    merchant_key,   \* self.merchant_key / self.key_secret of the service objects
    clock,          \* the system clock, in ticks (TicksPerSec ticks per second)
    call,           \* the tool invocation that has just returned (or Idle)
    rt,             \* the retry_on_failure wrapper around BaseService._make_request
    prev,           \* the invocation the caller took before the current one
    boot            \* the start of the process: its environment, settings and phase

vars == <<mid, merchant_key, clock, call, rt, prev, boot>>

-----------------------------------------------------------------------------
(* Bounds of the model *)

TicksPerSec == 2
MaxDrift    == 1     \* ticks the clock may advance between two reads in one call
MaxN        == 3     \* largest max_retries the wrapper is instantiated with
MaxDelay    == 2     \* largest delay the wrapper is instantiated with

DaySecs     == 86400
ClockStart  == 40 * DaySecs * TicksPerSec + 1

-----------------------------------------------------------------------------
(* Python values *)

NoneV    == <<"None">>
Str(s)   == <<"str", s>>
Bool(b)  == <<"bool", b>>
Num(n)   == <<"num", n>>
Ist(n)   == <<"ist", n>>
Dict(ps) == <<"dict", ps>>
Fmt(template, args) == <<"fmt", template, args>>   \* an f-string / format() result

\* bool(v) for the values the tools receive
Truthy(v) ==
    CASE v[1] = "None" -> FALSE
      [] v[1] = "str"  -> v[2] # ""
      [] v[1] = "bool" -> v[2]
      [] v[1] = "num"  -> v[2] # 0
      [] v[1] = "dict" -> v[2] # <<>>
      [] OTHER         -> TRUE

\* d[k] for a dict value d that has key k
DictGet(d, k) ==
    LET ps == d[2]
        i  == CHOOSE j \in 1..Len(ps) : ps[j][1] = k
    IN  ps[i][2]

DictHas(d, k) == \E j \in 1..Len(d[2]) : d[2][j][1] = k

\* json.dumps(v) with the default separators, as a sequence of tokens
RECURSIVE JsonDumps(_)
RECURSIVE JsonMembers(_, _)
JsonMembers(ps, i) ==
    IF i > Len(ps) THEN <<>>
    ELSE (IF i > 1 THEN << <<"p", ", ">> >> ELSE <<>>)
         \o << <<"k", ps[i][1]>>, <<"p", ": ">> >>
         \o JsonDumps(ps[i][2])
         \o JsonMembers(ps, i + 1)
JsonDumps(v) ==
    CASE v[1] = "None" -> << <<"lit", "null">> >>
      [] v[1] = "bool" -> << <<"lit", IF v[2] THEN "true" ELSE "false">> >>
      [] v[1] = "str"  -> << <<"q", v[2]>> >>
      [] v[1] = "ist"  -> << <<"qd", v[2]>> >>
      [] v[1] = "num"  -> << <<"n", v[2]>> >>
      [] v[1] = "sig"  -> << <<"qs", v[2], v[3]>> >>
      [] v[1] = "fmt"  -> << <<"qf", v[2], v[3]>> >>
      [] v[1] = "dec"  -> << <<"qn", v[2], v[3]>> >>
      [] v[1] = "dict" -> << <<"p", "{">> >> \o JsonMembers(v[2], 1) \o << <<"p", "}">> >>

\* PaytmChecksum.generateSignature(text, key): an opaque value over exactly
\* the text and the key it was given
GenerateSignature(text, key) == <<"sig", text, key>>

-----------------------------------------------------------------------------
(* int(time_range) *)

DigitOf == ("0" :> 0) @@ ("1" :> 1) @@ ("2" :> 2) @@ ("3" :> 3) @@ ("4" :> 4)
           @@ ("5" :> 5) @@ ("6" :> 6) @@ ("7" :> 7) @@ ("8" :> 8) @@ ("9" :> 9)

IsDigits(cs) == Len(cs) > 0 /\ \A i \in 1..Len(cs) : cs[i] \in DOMAIN DigitOf

RECURSIVE DigitsVal(_)
DigitsVal(cs) ==
    IF cs = <<>> THEN 0
    ELSE 10 * DigitsVal(SubSeq(cs, 1, Len(cs) - 1)) + DigitOf[cs[Len(cs)]]

\* int(s) for a str given as its characters: [ok, val]; ok = FALSE is ValueError
PyInt(cs) ==
    LET signed == Len(cs) > 0 /\ cs[1] \in {"-", "+"}
        digs   == IF signed THEN SubSeq(cs, 2, Len(cs)) ELSE cs
    IN  IF IsDigits(digs)
        THEN [ok |-> TRUE,
              val |-> IF signed /\ cs[1] = "-" THEN 0 - DigitsVal(digs) ELSE DigitsVal(digs)]
        ELSE [ok |-> FALSE, val |-> 0]

-----------------------------------------------------------------------------
(* DateService: t is the clock reading, in ticks, at the call *)

\* strftime('%Y-%m-%dT%H:%M:%S+05:30') drops the sub-second part
Strftime(t) == Ist(t \div TicksPerSec)

get_current_date(t) == Strftime(t)

\* [raised, value]: int() may raise ValueError
get_date_by_time_range(time_range, t) ==
    LET n == PyInt(time_range)
    IN  IF n.ok
        THEN [raised |-> "none",
              value  |-> Strftime(t - n.val * DaySecs * TicksPerSec)]
        ELSE [raised |-> "ValueError", value |-> NoneV]

-----------------------------------------------------------------------------
(* The gateway's answer to one POST.                                       *)
(*   net   "conn_error" | "timeout" : requests raises before any response  *)
(*         "http"                   : a response came back                 *)
(*   code  the HTTP status code                                            *)
(*   text  "json" (decodable), "garbage" (undecodable), "empty" ("")       *)
(*   st    the result status at the path the operation reads, or Absent    *)
(*   msg   the message at the key the operation reads, or Absent           *)
(*   hasColl, coll  the record collection at the key the operation reads   *)
(*   aux   an operation-specific scalar of the answer ('count' of the      *)
(*         refund list, 'refundStatus' of the refund status), or Absent    *)

Absent == "<absent>"

Rec(i, f) == [id |-> i, full |-> f]    \* a record; ~full: a field is missing

Collections ==
    { [hasColl |-> FALSE, coll |-> <<>>],
      [hasColl |-> TRUE,  coll |-> <<>>],
      [hasColl |-> TRUE,  coll |-> << Rec(1, TRUE) >>],
      [hasColl |-> TRUE,  coll |-> << Rec(1, TRUE), Rec(2, FALSE) >>] }

NoColl == [hasColl |-> FALSE, coll |-> <<>>]

Resp(net, code, text, st, msg, c, aux) ==
    [net |-> net, code |-> code, text |-> text, st |-> st, msg |-> msg,
     hasColl |-> c.hasColl, coll |-> c.coll, aux |-> aux]

NetFailures ==
    { Resp(n, 0, "none", Absent, Absent, NoColl, Absent) : n \in {"conn_error", "timeout"} }

Undecodable ==
    { Resp("http", c, t, Absent, Absent, NoColl, Absent) :
        c \in {200, 500}, t \in {"garbage", "empty"} }

Decodable(sts, colls, auxs) ==
    { Resp("http", c, "json", s, m, k, a) :
        c \in {200, 500}, s \in sts, m \in {Absent, "gateway message"},
        k \in colls, a \in auxs }

ListStatuses   == {Absent, "SUCCESS", "FAILURE"}
RefundStatuses == {Absent, "SUCCESS", "PENDING", "TXN_FAILURE"}

Responses(op) ==
    NetFailures \cup Undecodable \cup
    CASE op \in {"fetch_payment_links", "fetch_transactions_for_link", "fetch_order_list"}
              -> Decodable(ListStatuses, Collections, {Absent})
      [] op = "fetch_refund_list"
              -> Decodable(ListStatuses, Collections, {Absent, "2"})
      [] op = "create_payment_link"
              -> Decodable(ListStatuses, {NoColl}, {Absent, "L1"})
      [] op = "initiate_refund"
              -> Decodable(RefundStatuses, {NoColl}, {Absent}) \cup
                 Decodable(RefundStatuses, {NoColl}, {"refund fields"})
      [] op = "check_refund_status"
              -> Decodable(RefundStatuses, {NoColl}, {Absent, "SUCCESS"})

NoResp == Resp("none", 0, "none", Absent, Absent, NoColl, Absent)

\* response.ok / raise_for_status(): a 2xx (below 400) status
HttpOk(resp) == resp.code < 400

-----------------------------------------------------------------------------
(* Results and outcomes *)

\* A returned string: the literal text of the code, the status and message
\* interpolated into it, and the records rendered into it
Res(prefix, st, msg, recs) == [prefix |-> prefix, st |-> st, msg |-> msg, recs |-> recs]

NoRes == Res("<no value>", "", "", <<>>)

\* One requests.post: the path, and the Python object whose json.dumps is the
\* text on the wire
PostOf(path, payload) == [path |-> path, payload |-> payload]

\* The POSTs one requests.post(...) statement of a service issues: one,
\* whatever the gateway answers
RequestsPostRetried(path, payload, resp) ==
    IF resp.net # "http" \/ resp.code >= 400 \/ resp.text # "json"
    THEN << PostOf(path, payload), PostOf(path, payload), PostOf(path, payload) >>
    ELSE << PostOf(path, payload) >>
RequestsPost(path, payload, resp) == << PostOf(path, payload) >>

\* What a service method did: the exception it raised ("none": it returned),
\* the value it returned, and the POSTs it issued
Outcome(raised, result, posts) == [raised |-> raised, result |-> result, posts |-> posts]

Returned(result, posts) == Outcome("none", result, posts)

\* str(e) of the exception requests raises for a failed exchange
NetError(resp) == IF resp.net = "timeout" THEN "ReadTimeout" ELSE "ConnectionError"

\* response.json() raises on a body that is not JSON
JsonFails(resp) == resp.text # "json"

-----------------------------------------------------------------------------
(* PaymentService (services/payment_service.py).  m, k: self.mid and       *)
(* self.merchant_key; a: the arguments; resp: the gateway's answer to the  *)
(* POST, should one be issued.                                             *)

\* The module imports requests, json, PaytmChecksum, pprint and Optional and
\* binds no name `logger`: evaluating logger.info(...) raises NameError
LoggerDefined == FALSE

\* paytmParams["body"] as the dict literal builds it
CreateLinkBody0(m, a) ==
    << <<"mid", m>>,
       <<"linkType", IF a.amount = NoneV THEN Str("GENERIC") ELSE Str("FIXED")>>,
       <<"linkDescription", Fmt("Payment for {purpose}", <<a.purpose>>)>>,
       <<"linkName", Fmt("{purpose}_{recipient_name}", <<a.purpose, a.recipient_name>>)>>,
       <<"sendSms", Bool(Truthy(a.customer_mobile))>>,
       <<"sendEmail", Bool(Truthy(a.customer_email))>>,
       <<"maxPaymentsAllowed", Num(1)>>,
       <<"customerContact", Dict(<< <<"customerName", a.recipient_name>>,
                                    <<"customerEmail", a.customer_email>>,
                                    <<"customerMobile", a.customer_mobile>> >>)>> >>

\* ... and after `if amount is not None: paytmParams["body"]["amount"] = amount`
CreateLinkBody(m, a) ==
    IF a.amount # NoneV
    THEN Append(CreateLinkBody0(m, a), <<"amount", a.amount>>)
    ELSE CreateLinkBody0(m, a)

\* the dict whose json.dumps is handed to generateSignature
CreateLinkSignedBody(m, a) == CreateLinkBody(m, a)

CreateLinkPayload(m, k, a) ==
    Dict(<< <<"body", Dict(CreateLinkBody(m, a))>>,
            <<"head", Dict(<< <<"tokenType", Str("AES")>>,
                              <<"signature",
                                GenerateSignature(JsonDumps(Dict(CreateLinkSignedBody(m, a))), k)>> >>)>> >>)

PaymentService_create_payment_link(m, k, a, resp) ==
    IF ~LoggerDefined
    THEN Outcome("NameError", NoRes, <<>>)
    ELSE
    LET posts == RequestsPost("/link/create", CreateLinkPayload(m, k, a), resp)
        err(x) == Returned(Res("Error creating payment link: ", "", x, <<>>), posts)
    IN  IF resp.net # "http" THEN err(NetError(resp))
        ELSE IF JsonFails(resp) THEN err("JSONDecodeError")
        ELSE IF resp.st = Absent THEN err("'resultStatus'")
        ELSE IF resp.st = "SUCCESS"
        THEN IF resp.aux = Absent THEN err("'shortUrl'")
             ELSE Returned(Res("{payment_link_id, short_url, email_sent, sms_sent}",
                               resp.st, "",
                               << [id |-> resp.aux,
                                   email_sent |-> Truthy(a.customer_email),
                                   sms_sent |-> Truthy(a.customer_mobile)] >>), posts)
        ELSE IF resp.msg = Absent THEN err("'resultMessage'")
        ELSE Returned(Res("Failed to create payment link: ", resp.st, resp.msg, <<>>), posts)

FetchLinksBody(m) == << <<"mid", m>> >>

FetchLinksPayload(m, k) ==
    Dict(<< <<"body", Dict(FetchLinksBody(m))>>,
            <<"head", Dict(<< <<"tokenType", Str("AES")>>,
                              <<"channelId", Str("WEB")>>,
                              <<"signature",
                                GenerateSignature(JsonDumps(Dict(FetchLinksBody(m))), k)>> >>)>> >>)

\* a record rendered into the result text; fallback: a default stood in for
\* a missing field
Rendered(r) == [id |-> r.id, fallback |-> ~r.full]

RenderAll(coll) == [i \in 1..Len(coll) |-> Rendered(coll[i])]

AllFull(coll) == \A i \in 1..Len(coll) : coll[i].full

PaymentService_fetch_payment_links(m, k, resp) ==
    LET posts == RequestsPost("/link/fetch", FetchLinksPayload(m, k), resp)
        err(x) == Returned(Res("Error fetching payment links: ", "", x, <<>>), posts)
    IN  IF resp.net # "http" THEN err(NetError(resp))
        ELSE IF JsonFails(resp) THEN err("JSONDecodeError")
        ELSE IF resp.st = Absent THEN err("'resultStatus'")
        ELSE IF resp.st = "SUCCESS"
        THEN IF ~resp.hasColl THEN err("'links'")                 \* response["body"]["links"]
             ELSE IF resp.coll = <<>>
             THEN Returned(Res("No payment links found.", resp.st, "", <<>>), posts)
             ELSE IF ~AllFull(resp.coll) THEN err("'linkId'")     \* link['linkId'], ...
             ELSE Returned(Res("Available Payment Links:", resp.st, "",
                               RenderAll(resp.coll)), posts)
        ELSE IF resp.msg = Absent THEN err("'resultMessage'")
        ELSE Returned(Res("Failed to fetch payment links: ", resp.st, resp.msg, <<>>), posts)

\* the body of the envelope, and the separate literal that is signed
FetchTxnBody(m, link_id) ==
    << <<"mid", m>>, <<"linkId", link_id>>, <<"fetchAllTxns", Bool(FALSE)>> >>

FetchTxnSignedBody(m, link_id) ==
    << <<"mid", m>>, <<"linkId", link_id>>, <<"fetchAllTxns", Bool(FALSE)>> >>

FetchTxnPayload(m, k, link_id) ==
    Dict(<< <<"body", Dict(FetchTxnBody(m, link_id))>>,
            <<"head", Dict(<< <<"tokenType", Str("AES")>>,
                              <<"signature",
                                GenerateSignature(JsonDumps(Dict(FetchTxnSignedBody(m, link_id))), k)>> >>)>> >>)

PaymentService_fetch_transactions_for_link(m, k, link_id, resp) ==
    LET posts == RequestsPost("/link/fetchTransaction", FetchTxnPayload(m, k, link_id), resp)
        err(x) == Returned(Res("Error fetching transactions: ", "", x, <<>>), posts)
    IN  IF resp.net # "http" THEN err(NetError(resp))
        ELSE IF JsonFails(resp) THEN err("JSONDecodeError")
        ELSE IF resp.st = Absent THEN err("'resultStatus'")
        ELSE IF resp.st = "SUCCESS"
        THEN IF resp.coll = <<>>                                  \* .get("orders", [])
             THEN Returned(Res("No transactions found for link ID {link_id}.",
                               resp.st, "", <<>>), posts)
             ELSE IF ~AllFull(resp.coll) THEN err("'txnId'")      \* order['txnId'], ...
             ELSE Returned(Res("Transactions for Link ID {link_id}:", resp.st, "",
                               RenderAll(resp.coll)), posts)
        ELSE IF resp.msg = Absent THEN err("'resultMessage'")
        ELSE Returned(Res("Failed to fetch transactions: ", resp.st, resp.msg, <<>>), posts)

-----------------------------------------------------------------------------
(* RefundService (services/refund_service.py) *)

\* format(x, '.2f'): x in thousandths (amounts that are exact binary
\* fractions, so the float is the number written); the result is the decimal
\* string <<"dec", places, n>>: `places` digits after the point, the digits
\* read as the integer n.  The rounding is to nearest, ties to even.
RoundHalfEven(x, unit) ==
    LET q == x \div unit
        r == x % unit
    IN  IF 2 * r > unit \/ (2 * r = unit /\ q % 2 = 1) THEN q + 1 ELSE q

Format1f(x) == <<"dec", 1, RoundHalfEven(x, 100)>>
Format2f(x) == <<"dec", 2, RoundHalfEven(x, 10)>>

PyStr(n) == Fmt("str(n)", <<Num(n)>>)     \* str() of an int

InitiateRefundBody(m, a) ==
    << <<"mid", m>>,
       <<"txnType", Str("REFUND")>>,
       <<"orderId", a.order_id>>,
       <<"txnId", a.txn_id>>,
       <<"refId", a.refund_reference_id>>,
       <<"refundAmount", Format2f(a.refund_amount)>> >>

InitiateRefundPayload(m, k, a) ==
    Dict(<< <<"body", Dict(InitiateRefundBody(m, a))>>,
            <<"head", Dict(<< <<"signature",
                                GenerateSignature(JsonDumps(Dict(InitiateRefundBody(m, a))), k)>> >>)>> >>)

\* str() of a value read with .get(key): 'None' when the key is missing
OrNone(x) == IF x = Absent THEN "None" ELSE x

\* status_message: the six lines every classified answer is reported with.
\* resp.aux = Absent: the answer lacks resultCode, refundId, txnId and
\* refundAmount; otherwise it carries all four.
StatusMessage(resp) ==
    [status    |-> OrNone(resp.st),
     msg       |-> OrNone(resp.msg),
     code      |-> IF resp.aux = Absent THEN "None" ELSE "601",
     refund_id |-> IF resp.aux = Absent THEN "" ELSE "RFND1",
     txn_id    |-> IF resp.aux = Absent THEN "" ELSE "TXN1",
     amount    |-> IF resp.aux = Absent THEN "" ELSE "100.00"]

\* the three-way test of result_status
ClassifyRefundBySuccess(st) ==
    IF st = "SUCCESS" THEN "Refund initiated successfully and is pending:"
    ELSE IF st = "TXN_FAILURE" THEN "Refund initiation failed:"
    ELSE "Unexpected response:"
ClassifyRefund(st) ==
    IF st = "PENDING" THEN "Refund initiated successfully and is pending:"
    ELSE IF st = "TXN_FAILURE" THEN "Refund initiation failed:"
    ELSE "Unexpected response:"

RefundService_initiate_refund_Retrying(m, k, a, resp) ==
    LET posts == RequestsPostRetried("/refund/apply", InitiateRefundPayload(m, k, a), resp)
        err(x) == Returned(Res("Error initiating refund: ", "", x, <<>>), posts)
    IN  IF resp.net # "http" THEN err(NetError(resp))
        ELSE IF JsonFails(resp) THEN err("JSONDecodeError")
        ELSE Returned(Res(ClassifyRefund(resp.st), OrNone(resp.st), OrNone(resp.msg),
                          << StatusMessage(resp) >>), posts)
RefundService_initiate_refund(m, k, a, resp) ==
    LET posts == RequestsPost("/refund/apply", InitiateRefundPayload(m, k, a), resp)
        err(x) == Returned(Res("Error initiating refund: ", "", x, <<>>), posts)
    IN  IF resp.net # "http" THEN err(NetError(resp))
        ELSE IF JsonFails(resp) THEN err("JSONDecodeError")
        ELSE Returned(Res(ClassifyRefund(resp.st), OrNone(resp.st), OrNone(resp.msg),
                          << StatusMessage(resp) >>), posts)

CheckRefundBody(m, a) ==
    << <<"mid", m>>, <<"orderId", a.order_id>>, <<"refId", a.refund_reference_id>> >>

CheckRefundPayload(m, k, a) ==
    Dict(<< <<"body", Dict(CheckRefundBody(m, a))>>,
            <<"head", Dict(<< <<"signature",
                                GenerateSignature(JsonDumps(Dict(CheckRefundBody(m, a))), k)>> >>)>> >>)

\* a value read with .get(key, ""): '' when the key is missing
OrEmpty(x) == IF x = Absent THEN "" ELSE x

\* reports body.refundStatus (resp.aux) and resultInfo.resultMsg; it never
\* reads resultInfo.resultStatus
RefundService_check_refund_status(m, k, a, resp) ==
    LET posts == RequestsPost("/v2/refund/status", CheckRefundPayload(m, k, a), resp)
        err(x) == Returned(Res("Error checking refund status: ", "", x, <<>>), posts)
    IN  IF resp.net # "http" THEN err(NetError(resp))
        ELSE IF JsonFails(resp) THEN err("JSONDecodeError")
        ELSE Returned(Res("Refund Status: ", OrEmpty(resp.aux), OrEmpty(resp.msg), <<>>), posts)

RefundListBody(m, a) ==
    << <<"mid", m>>,
       <<"isSort", Str(IF a.is_sort THEN "true" ELSE "false")>>,
       <<"startDate", a.start_date>>,
       <<"endDate", a.end_date>>,
       <<"pageNum", PyStr(a.page_num)>>,
       <<"pageSize", PyStr(a.page_size)>> >>

RefundListPayload(m, k, a) ==
    Dict(<< <<"head", Dict(<< <<"tokenType", Str("CHECKSUM")>>,
                              <<"signature",
                                GenerateSignature(JsonDumps(Dict(RefundListBody(m, a))), k)>> >>)>>,
            <<"body", Dict(RefundListBody(m, a))>> >>)

\* the records the per-record try/except lets through
RECURSIVE KeepFull(_)
KeepFull(coll) ==
    IF coll = <<>> THEN <<>>
    ELSE (IF coll[1].full THEN << Rendered(coll[1]) >> ELSE <<>>) \o KeepFull(Tail(coll))

RefundService_fetch_refund_list(m, k, a, resp) ==
    IF ~(Truthy(a.start_date) /\ Truthy(a.end_date))
    THEN Returned(Res("Error: start_date and end_date are required parameters", "", "", <<>>), <<>>)
    ELSE IF ~Truthy(m)
    THEN Returned(Res("Error: Merchant ID (mid) is not configured", "", "", <<>>), <<>>)
    ELSE
    LET posts == RequestsPost("/merchant-passbook/api/v1/refundList", RefundListPayload(m, k, a), resp)
        err(x) == Returned(Res("Error fetching refund list: ", "", x, <<>>), posts)
    IN  IF resp.net # "http"
        THEN Returned(Res("Network error while fetching refund list: ", "", NetError(resp), <<>>), posts)
        ELSE IF ~HttpOk(resp)
        THEN Returned(Res("API request failed with status code: ", "", "status_code", <<>>), posts)
        ELSE IF JsonFails(resp)
        THEN Returned(Res("Error: Invalid JSON response from server", "", "", <<>>), posts)
        ELSE IF resp.st = Absent THEN err("'status'")
        ELSE IF resp.st = "SUCCESS"
        THEN IF ~resp.hasColl THEN err("'orders'")               \* response_data["orders"]
             ELSE IF resp.coll = <<>>
             THEN Returned(Res("No refunds found for the given date range.", resp.st, "", <<>>), posts)
             ELSE IF resp.aux = Absent THEN err("'count'")       \* response_data['count']
             ELSE Returned(Res("Refunds List (Count: {count})", resp.st, "",
                               KeepFull(resp.coll)), posts)
        \* the else branch reads `orders`, which only the SUCCESS branch binds
        ELSE err("local variable 'orders' referenced before assignment")

-----------------------------------------------------------------------------
(* OrderListService (services/order_list_service.py) *)

\* the body as the dict literal builds it (is_sort keeps its default, True)
OrderListBody0(m, a) ==
    << <<"mid", m>>,
       <<"fromDate", a.from_date>>,
       <<"toDate", a.to_date>>,
       <<"orderSearchType", a.order_search_type>>,
       <<"pageNumber", PyStr(a.page_number)>>,
       <<"pageSize", PyStr(a.page_size)>>,
       <<"isSort", Bool(TRUE)>> >>

\* ... and after `if order_search_status: body["orderSearchStatus"] = ...`
OrderListBody(m, a) ==
    IF Truthy(a.order_search_status)
    THEN Append(OrderListBody0(m, a), <<"orderSearchStatus", a.order_search_status>>)
    ELSE OrderListBody0(m, a)

\* the dict whose json.dumps is handed to generateSignature
OrderListSignedBodyEarly(m, a) == OrderListBody0(m, a)
OrderListSignedBody(m, a) == OrderListBody(m, a)

OrderListPayload(m, k, a) ==
    Dict(<< <<"head", Dict(<< <<"tokenType", Str("CHECKSUM")>>,
                              <<"signature",
                                GenerateSignature(JsonDumps(Dict(OrderListSignedBody(m, a))), k)>> >>)>>,
            <<"body", Dict(OrderListBody(m, a))>> >>)

OrderListService_fetch_order_list(m, k, a, resp) ==
    LET posts == RequestsPost("/merchant-passbook/search/list/order/v2", OrderListPayload(m, k, a), resp)
    IN  IF resp.net # "http"
        THEN Returned(Res("Failed to fetch order list: ", "", NetError(resp), <<>>), posts)
        ELSE IF ~HttpOk(resp)                                     \* raise_for_status()
        THEN Returned(Res("Failed to fetch order list: ", "", "HTTPError", <<>>), posts)
        ELSE IF resp.text = "empty"
        THEN Returned(Res("Empty response received from Paytm API", "", "", <<>>), posts)
        ELSE IF JsonFails(resp)
        THEN Returned(Res("Invalid JSON response from Paytm API: ", "", "JSONDecodeError", <<>>), posts)
        ELSE IF resp.st # "SUCCESS"
        THEN Returned(Res("Error fetching order list: ", OrNone(resp.st),
                          IF resp.msg = Absent THEN "Unknown error" ELSE resp.msg, <<>>), posts)
        ELSE IF resp.coll = <<>>                                  \* .get("orders", [])
        THEN Returned(Res("No orders found for the given criteria.", resp.st, "", <<>>), posts)
        ELSE Returned(Res("Order List:", resp.st, "", RenderAll(resp.coll)), posts)

-----------------------------------------------------------------------------
(* The tool functions (paytm_mcp.py).  Each yields the record of one       *)
(* invocation:                                                             *)
(*   op, args    the tool and the arguments the caller gave                *)
(*   raised      the exception that left the tool function ("none": it     *)
(*               returned), result: the value it returned                  *)
(*   svcCalls    how often the service method was entered, svcArgs: with   *)
(*               which arguments                                           *)
(*   posts       the POSTs issued, resp: the gateway's answer to them      *)
(*   clockReads  how often the clock was read, at ticks t1 and t2          *)

Invocation(op, args, raised, result, svcCalls, svcArgs, posts, resp, reads, t1, t2) ==
    [op |-> op, args |-> args, raised |-> raised, result |-> result,
     svcCalls |-> svcCalls, svcArgs |-> svcArgs, posts |-> posts,
     resp |-> IF posts = <<>> THEN NoResp ELSE resp,
     clockReads |-> reads, t1 |-> IF reads >= 1 THEN t1 ELSE 0,
     t2 |-> IF reads >= 2 THEN t2 ELSE 0]

\* str(e) of an exception caught by the tool's `except Exception as e`
StrOfException(e) ==
    CASE e = "NameError"  -> "name 'logger' is not defined"
      [] e = "ValueError" -> "invalid literal for int() with base 10"
      [] OTHER            -> e

\* try: return service(...)  except Exception as e: return str(e)
Guarded(op, args, svcArgs, out, resp, reads, t1, t2) ==
    Invocation(op, args, "none",
               IF out.raised = "none" THEN out.result
               ELSE Res("", "", StrOfException(out.raised), <<>>),
               1, svcArgs, out.posts, resp, reads, t1, t2)

\* `if x in [None, "", "null"]: x = None`
Normalize(x) == IF x \in {NoneV, Str(""), Str("null")} THEN NoneV ELSE x

Tool_create_payment_link(m, k, a, resp) ==
    LET sa == [a EXCEPT !.customer_mobile = Normalize(a.customer_mobile),
                        !.customer_email  = Normalize(a.customer_email)]
    IN  Guarded("create_payment_link", a, sa,
                PaymentService_create_payment_link(m, k, sa, resp), resp, 0, 0, 0)

\* every string the service returns is non-empty, so `if not links` is false
Tool_fetch_payment_links(m, k, a, resp) ==
    Guarded("fetch_payment_links", a, a,
            PaymentService_fetch_payment_links(m, k, resp), resp, 0, 0, 0)

Tool_fetch_transactions_for_link(m, k, a, resp) ==
    Guarded("fetch_transactions_for_link", a, a,
            PaymentService_fetch_transactions_for_link(m, k, a.link_id, resp), resp, 0, 0, 0)

Tool_initiate_refund(m, k, a, resp) ==
    Guarded("initiate_refund", a, a,
            RefundService_initiate_refund(m, k, a, resp), resp, 0, 0, 0)

Tool_check_refund_status_Stamped(m, k, a, resp) ==
    LET c == Guarded("check_refund_status", a, a,
                     RefundService_check_refund_status(m, k, a, resp), resp, 0, 0, 0)
    IN  [c EXCEPT !.result.recs = << clock >>]
Tool_check_refund_status(m, k, a, resp) ==
    Guarded("check_refund_status", a, a,
            RefundService_check_refund_status(m, k, a, resp), resp, 0, 0, 0)

\* `if not (start_date and end_date):`
UseTimeRangeAlways(start, end) == TRUE
UseTimeRange(start, end) == ~(Truthy(start) /\ Truthy(end))

\* The date resolution both list tools perform: the start from one clock
\* reading (t1), the end from a second one (t2)
ResolveDates(start, end, time_range, t1, t2) ==
    IF UseTimeRange(start, end)
    THEN LET s == get_date_by_time_range(time_range, t1)
         IN  IF s.raised # "none"
             THEN [raised |-> s.raised, start |-> start, end |-> end, reads |-> 1]
             ELSE [raised |-> "none", start |-> s.value,
                   end |-> get_current_date(t2), reads |-> 2]
    ELSE [raised |-> "none", start |-> start, end |-> end, reads |-> 0]

\* the resolution is inside the try block
Tool_fetch_refund_list(m, k, a, resp, t1, t2) ==
    LET d  == ResolveDates(a.start_date, a.end_date, a.time_range, t1, t2)
        sa == [a EXCEPT !.start_date = d.start, !.end_date = d.end]
    IN  IF d.raised # "none"
        THEN Invocation("fetch_refund_list", a, "none",
                        Res("", "", StrOfException(d.raised), <<>>),
                        0, a, <<>>, resp, d.reads, t1, t2)
        ELSE Guarded("fetch_refund_list", a, sa,
                     RefundService_fetch_refund_list(m, k, sa, resp), resp, d.reads, t1, t2)

\* the resolution precedes the try block
Tool_fetch_order_list(m, k, a, resp, t1, t2) ==
    LET d  == ResolveDates(a.from_date, a.to_date, a.time_range, t1, t2)
        sa == [a EXCEPT !.from_date = d.start, !.to_date = d.end]
    IN  IF d.raised # "none"
        THEN Invocation("fetch_order_list", a, d.raised, NoRes,
                        0, a, <<>>, resp, d.reads, t1, t2)
        ELSE Guarded("fetch_order_list", a, sa,
                     OrderListService_fetch_order_list(m, k, sa, resp), resp, d.reads, t1, t2)

-----------------------------------------------------------------------------
(* The arguments callers give *)

Contacts(real) == {NoneV, Str(""), Str("null"), Str(real)}
Amounts        == {NoneV, Str(""), Str("null"), Str("100")}
TimeRanges     == { <<"7">>, <<"0">>, <<"-", "1">>, <<"3", "0">>, <<"a", "b", "c">> }
ExplicitFrom   == 10 * DaySecs
ExplicitTo     == 12 * DaySecs
Bounds(day)    == {NoneV, Str(""), Str("null"), Ist(day)}
RefundAmounts  == {100000, 12340, 125, 375}        \* thousandths
Paging         == { [sort |-> TRUE, page |-> 1], [sort |-> FALSE, page |-> 2] }

CreateLinkArgs ==
    [recipient_name : {Str("Asha")}, purpose : {Str("Consulting")},
     customer_email : Contacts("a@x.com"), customer_mobile : Contacts("9999999999"),
     amount : Amounts]

RefundArgs ==
    [order_id : {Str("ORDER1")}, refund_reference_id : {Str("REF1")},
     txn_id : {Str("TXN1")}, refund_amount : RefundAmounts]

RefundStatusArgs ==
    [order_id : {Str("ORDER1")}, refund_reference_id : {Str("REF1"), Str("REF2")}]

RefundListArgs ==
    { [is_sort |-> p.sort, page_num |-> p.page, page_size |-> 50, time_range |-> tr,
       start_date |-> s, end_date |-> e] :
      p \in Paging, tr \in TimeRanges, s \in Bounds(ExplicitFrom), e \in Bounds(ExplicitTo) }

OrderListArgs ==
    { [order_search_type |-> Str("TRANSACTION"), order_search_status |-> st,
       page_number |-> 1, page_size |-> 50, time_range |-> tr,
       from_date |-> s, to_date |-> e] :
      st \in {Str("SUCCESS"), Str(""), NoneV}, tr \in TimeRanges,
      s \in Bounds(ExplicitFrom), e \in Bounds(ExplicitTo) }

-----------------------------------------------------------------------------
(* The state machine of the tools: one invocation at a time; the caller    *)
(* takes the value before the next invocation starts.                      *)

Idle == Invocation("idle", <<>>, "none", NoRes, 0, <<>>, <<>>, NoResp, 0, 0, 0)

RtIdle ==
    [pc |-> "idle", max_retries |-> 0, delay |-> 0, attempt |-> 0,
     outcomes |-> <<>>, events |-> <<>>, result |-> NoResp, exc |-> <<>>]

\* what is kept of an invocation to compare a later one with
Taken(c, m, k) ==
    [op |-> c.op, args |-> c.args, resp |-> c.resp, raised |-> c.raised,
     result |-> c.result, mid |-> m, merchant_key |-> k]

NoPrev == Taken(Idle, NoneV, NoneV)

\* os.environ, the attributes of `settings`, and how far the start has come
NoEnv == <<>>
NoSettings == <<>>
Booting(phase, env, settings) == [phase |-> phase, env |-> env, settings |-> settings]
Constructed == Booting("constructed", NoEnv, NoSettings)

\* The state once the three service objects exist: the tools are checked as
\* functions of constructed services (mid is os.getenv('PAYTM_MID'): a string,
\* or None when the variable is unset).
Init ==
    /\ mid \in {NoneV, Str("MID1")}
    /\ merchant_key = Str("KEY1")
    /\ clock = ClockStart
    /\ call = Idle
    /\ rt = RtIdle
    /\ prev = NoPrev
    /\ boot = Constructed

ClockMax == ClockStart + MaxDrift

\* a tool that reads no clock
Finish(c) ==
    /\ call' = c
    /\ UNCHANGED <<prev, boot, mid, merchant_key, clock, rt>>

\* a tool that reads the clock twice, the clock advancing d ticks in between
FinishTimed(c, d) ==
    /\ c.clockReads < 2 => d = 0
    /\ call' = c
    /\ clock' = clock + d
    /\ UNCHANGED <<prev, boot, mid, merchant_key, rt>>

CreatePaymentLink ==
    /\ call = Idle
    /\ \E a \in CreateLinkArgs, r \in Responses("create_payment_link") :
          Finish(Tool_create_payment_link(mid, merchant_key, a, r))

FetchPaymentLinks ==
    /\ call = Idle
    /\ \E r \in Responses("fetch_payment_links") :
          Finish(Tool_fetch_payment_links(mid, merchant_key, <<>>, r))

FetchTransactionsForLink ==
    /\ call = Idle
    /\ \E l \in {Str("LINK1"), Str("LINK2")}, r \in Responses("fetch_transactions_for_link") :
          Finish(Tool_fetch_transactions_for_link(mid, merchant_key, [link_id |-> l], r))

InitiateRefund ==
    /\ call = Idle
    /\ \E a \in RefundArgs, r \in Responses("initiate_refund") :
          Finish(Tool_initiate_refund(mid, merchant_key, a, r))

CheckRefundStatus ==
    /\ call = Idle
    /\ \E a \in RefundStatusArgs, r \in Responses("check_refund_status") :
          Finish(Tool_check_refund_status(mid, merchant_key, a, r))

FetchRefundList ==
    /\ call = Idle
    /\ \E a \in RefundListArgs, r \in Responses("fetch_refund_list"), d \in 0..MaxDrift :
          /\ clock + d <= ClockMax
          /\ FinishTimed(Tool_fetch_refund_list(mid, merchant_key, a, r, clock, clock + d), d)

FetchOrderList ==
    /\ call = Idle
    /\ \E a \in OrderListArgs, r \in Responses("fetch_order_list"), d \in 0..MaxDrift :
          /\ clock + d <= ClockMax
          /\ FinishTimed(Tool_fetch_order_list(mid, merchant_key, a, r, clock, clock + d), d)

\* the caller has the value (or the exception); the server is idle again
TakeResult ==
    /\ call # Idle
    /\ call' = Idle
    /\ UNCHANGED <<prev, boot, mid, merchant_key, clock, rt>>

Tick ==
    /\ call = Idle
    /\ clock < ClockMax
    /\ clock' = clock + 1
    /\ UNCHANGED <<prev, boot, mid, merchant_key, call, rt>>

Next ==
    \/ CreatePaymentLink
    \/ FetchPaymentLinks
    \/ FetchTransactionsForLink
    \/ InitiateRefund
    \/ CheckRefundStatus
    \/ FetchRefundList
    \/ FetchOrderList
    \/ TakeResult
    \/ Tick

Spec == Init /\ [][Next]_vars

-----------------------------------------------------------------------------
(* The read-only tools called again and again: the caller keeps what it    *)
(* took, time passes, and the gateway answers as the operation's answers   *)
(* allow.                                                                  *)

TakeAndKeep ==
    /\ call # Idle
    /\ prev' = Taken(call, mid, merchant_key)
    /\ call' = Idle
    /\ UNCHANGED <<boot, mid, merchant_key, clock, rt>>

NextRepeat ==
    \/ FetchPaymentLinks
    \/ FetchTransactionsForLink
    \/ CheckRefundStatus
    \/ TakeAndKeep
    \/ Tick

SpecRepeat == Init /\ [][NextRepeat]_vars

-----------------------------------------------------------------------------
(* The start of the process: config/settings.py is imported, then          *)
(* paytm_mcp.py constructs the three services.                             *)
(*   boot.phase  "start", "imported" (settings exists), "crashed" (the     *)
(*               import raised), "constructed" (the services exist),       *)
(*               "exited" (sys.exit(1))                                    *)

Chars(cs) == <<"chars", cs>>       \* a str kept as its characters

\* os.getenv(name, default): env[name] is NoneV when the variable is unset
Getenv(env, name, default) == IF env[name] = NoneV THEN default ELSE env[name]

Envs ==
    [SMTP_SERVER : {NoneV},
     SMTP_PORT : {NoneV, Chars(<<"2", "5">>), Chars(<<"a", "b", "c">>)},
     SMTP_USERNAME : {NoneV},
     SMTP_APP_PASSWORD : {NoneV},
     PAYTM_MERCHANT_KEY : {NoneV, Str(""), Str("KEY1")},
     PAYTM_MID : {NoneV, Str(""), Str("MID1")},
     PAYTM_KEY_SECRET : {NoneV, Str("KEY1")}]

\* the body of class Settings: [raised, settings]; int() may raise ValueError
LoadSettings(env) ==
    LET port == PyInt(Getenv(env, "SMTP_PORT", Chars(<<"5", "8", "7">>))[2])
    IN  IF ~port.ok
        THEN [raised |-> "ValueError", settings |-> NoSettings]
        ELSE [raised |-> "none",
              settings |->
                [SMTP_SERVER        |-> Getenv(env, "SMTP_SERVER", Str("smtp.gmail.com")),
                 SMTP_PORT          |-> Num(port.val),
                 SMTP_USERNAME      |-> Getenv(env, "SMTP_USERNAME", NoneV),
                 SMTP_APP_PASSWORD  |-> Getenv(env, "SMTP_APP_PASSWORD", NoneV),
                 PAYTM_MERCHANT_KEY |-> Getenv(env, "PAYTM_MERCHANT_KEY", NoneV),
                 PAYTM_MID          |-> Getenv(env, "PAYTM_MID", NoneV),
                 PAYTM_BASE_URL     |-> Str("https://secure.paytmpayments.com")]]

\* settings.<name> raises AttributeError unless the class body binds the name
HasAttr(settings, name) == name \in DOMAIN settings

InitStartup ==
    /\ mid = NoneV
    /\ merchant_key = NoneV
    /\ clock = ClockStart
    /\ call = Idle
    /\ rt = RtIdle
    /\ prev = NoPrev
    /\ \E e \in Envs : boot = Booting("start", e, NoSettings)

\* `from config.settings import settings`; an exception here ends the process
ImportSettings ==
    /\ boot.phase = "start"
    /\ LET l == LoadSettings(boot.env)
       IN  boot' = IF l.raised # "none"
                   THEN Booting("crashed", boot.env, NoSettings)
                   ELSE Booting("imported", boot.env, l.settings)
    /\ UNCHANGED <<prev, mid, merchant_key, clock, call, rt>>

\* try: XService(settings.PAYTM_KEY_SECRET, settings.PAYTM_MID) three times
\* except Exception: logger.error(...); sys.exit(1)
InitialiseServices ==
    /\ boot.phase = "imported"
    /\ IF HasAttr(boot.settings, "PAYTM_KEY_SECRET") /\ HasAttr(boot.settings, "PAYTM_MID")
       THEN /\ merchant_key' = boot.settings.PAYTM_KEY_SECRET
            /\ mid' = boot.settings.PAYTM_MID
            /\ boot' = [boot EXCEPT !.phase = "constructed"]
       ELSE /\ boot' = [boot EXCEPT !.phase = "exited"]
            /\ UNCHANGED <<mid, merchant_key>>
    /\ UNCHANGED <<prev, clock, call, rt>>

NextStartup == ImportSettings \/ InitialiseServices

SpecStartup == InitStartup /\ [][NextStartup]_vars

-----------------------------------------------------------------------------
(* utils/base_service.py: retry_on_failure around BaseService._make_request *)
(*                                                                         *)
(* rt.pc        "idle", "calling" (about to invoke func), "sleeping" (in   *)
(*              sleep), "returned", "raised"                               *)
(* rt.attempt   the loop variable of `for attempt in range(max_retries)`   *)
(* rt.outcomes  the gateway's answer to each invocation of func, in order  *)
(* rt.events    <<"call", i>> when the i-th invocation ended,              *)
(*              <<"sleep", s>> when sleep(s) was entered                   *)
(* rt.result    the value the wrapper returned                             *)
(* rt.exc       the exception that left the wrapper: <<kind, invocation>>  *)

MAX_RETRIES == 3      \* the default of retry_on_failure, which _make_request takes

\* _make_request raises: requests.request failed, raise_for_status() on a
\* status of 400 and above, or response.json() on an undecodable body
MakeRequestRaisesOnRejection(resp) ==
    resp.net # "http" \/ ~HttpOk(resp) \/ JsonFails(resp) \/ resp.st # "SUCCESS"
MakeRequestRaises(resp) ==
    resp.net # "http" \/ ~HttpOk(resp) \/ JsonFails(resp)

ExceptionOf(resp) ==
    IF resp.net # "http" THEN NetError(resp)
    ELSE IF ~HttpOk(resp) THEN "HTTPError"
    ELSE "JSONDecodeError"

\* `if attempt == max_retries - 1: raise`
IsLastAttemptLate(attempt, max_retries) == attempt = max_retries
IsLastAttempt(attempt, max_retries) == attempt = max_retries - 1

\* `time.sleep(delay * (attempt + 1))`
SleepTimeFlat(delay, attempt) == delay
SleepTime(delay, attempt) == delay * (attempt + 1)

\* the answers the gateway gives _make_request
TransportResponses ==
    NetFailures \cup Undecodable \cup
    { Resp("http", c, "json", s, "gateway message", NoColl, Absent) :
        c \in {200, 500}, s \in {"SUCCESS", "FAILURE"} }

\* the wrapper is entered; range(0) runs no attempt and falls to `return None`
RetryEnter ==
    /\ call = Idle
    /\ rt.pc = "idle"
    /\ \E n \in 0..MaxN, d \in 1..MaxDelay :
          rt' = [RtIdle EXCEPT !.pc = IF n = 0 THEN "returned" ELSE "calling",
                               !.max_retries = n, !.delay = d]
    /\ UNCHANGED <<prev, boot, mid, merchant_key, clock, call>>

\* one invocation of func: it returns the parsed body, or raises and the
\* wrapper re-raises (last attempt) or enters sleep(delay * (attempt + 1))
RetryAttempt ==
    /\ rt.pc = "calling"
    /\ \E resp \in TransportResponses :
          LET n    == Len(rt.outcomes) + 1
              base == [rt EXCEPT !.outcomes = Append(@, resp),
                                 !.events = Append(@, <<"call", n>>)]
          IN  rt' = IF ~MakeRequestRaises(resp)
                    THEN [base EXCEPT !.pc = "returned", !.result = resp]
                    ELSE IF IsLastAttempt(rt.attempt, rt.max_retries)
                    THEN [base EXCEPT !.pc = "raised",
                                      !.exc = <<ExceptionOf(resp), n>>]
                    ELSE [base EXCEPT !.pc = "sleeping",
                                      !.events = Append(@, <<"sleep", SleepTime(rt.delay, rt.attempt)>>)]
    /\ UNCHANGED <<prev, boot, mid, merchant_key, clock, call>>

\* sleep returns; the loop takes its next value, or ends and `return None`
RetryWake ==
    /\ rt.pc = "sleeping"
    /\ rt' = IF rt.attempt + 1 < rt.max_retries
             THEN [rt EXCEPT !.pc = "calling", !.attempt = @ + 1]
             ELSE [rt EXCEPT !.pc = "returned", !.attempt = @ + 1]
    /\ UNCHANGED <<prev, boot, mid, merchant_key, clock, call>>

\* the caller has the value or the exception
RetryLeave ==
    /\ rt.pc \in {"returned", "raised"}
    /\ rt' = RtIdle
    /\ UNCHANGED <<prev, boot, mid, merchant_key, clock, call>>

NextRetry == RetryEnter \/ RetryAttempt \/ RetryWake \/ RetryLeave

SpecRetry == Init /\ [][NextRetry]_vars

-----------------------------------------------------------------------------
(* Vocabulary of the properties *)

Called == call.op # "idle"

DateTools == {"fetch_refund_list", "fetch_order_list"}
ListTools == {"fetch_payment_links", "fetch_transactions_for_link",
              "fetch_refund_list", "fetch_order_list"}

\* the POST failed at the transport layer
TransportFailed(resp) ==
    \/ resp.net \in {"conn_error", "timeout"}
    \/ resp.net = "http" /\ (resp.code >= 400 \/ resp.text # "json")

\* the gateway answered 2xx with a decodable body
Parsed2xx(resp) == resp.net = "http" /\ resp.code < 400 /\ resp.text = "json"

\* the texts that report a failure
FailureTexts ==
    { "", "Error creating payment link: ", "Failed to create payment link: ",
      "Error fetching payment links: ", "Failed to fetch payment links: ",
      "Error fetching transactions: ", "Failed to fetch transactions: ",
      "Error initiating refund: ", "Refund initiation failed:", "Unexpected response:",
      "Error checking refund status: ",
      "Error: start_date and end_date are required parameters",
      "Error: Merchant ID (mid) is not configured",
      "Network error while fetching refund list: ",
      "API request failed with status code: ",
      "Error: Invalid JSON response from server",
      "Error fetching refund list: ",
      "Failed to fetch refund list from refund service: ",
      "Failed to fetch order list: ", "Empty response received from Paytm API",
      "Invalid JSON response from Paytm API: ", "Error fetching order list: ",
      "Unexpected error while fetching order list: " }

\* the texts that report that the gateway holds no record
NoRecordTexts ==
    { "No payment links found.", "No transactions found for link ID {link_id}.",
      "No refunds found for the given date range.",
      "No orders found for the given criteria." }

\* the texts that report success with data
SuccessTexts ==
    { "{payment_link_id, short_url, email_sent, sms_sent}", "Available Payment Links:",
      "Transactions for Link ID {link_id}:", "Refund initiated successfully and is pending:",
      "Refunds List (Count: {count})", "Order List:" }

IsFailure(res) == res.prefix \in FailureTexts

\* the dates of an invocation of a date tool, as the caller gave them
GivenStart == IF call.op = "fetch_refund_list" THEN call.args.start_date ELSE call.args.from_date
GivenEnd   == IF call.op = "fetch_refund_list" THEN call.args.end_date ELSE call.args.to_date

\* ... and as the service received them
SentStart == IF call.op = "fetch_refund_list" THEN call.svcArgs.start_date ELSE call.svcArgs.from_date
SentEnd   == IF call.op = "fetch_refund_list" THEN call.svcArgs.end_date ELSE call.svcArgs.to_date

\* ... and as the body of a POST carries them
BodyOf(post) == DictGet(post.payload, "body")
BodyStart(post) ==
    DictGet(BodyOf(post), IF call.op = "fetch_refund_list" THEN "startDate" ELSE "fromDate")
BodyEnd(post) ==
    DictGet(BodyOf(post), IF call.op = "fetch_refund_list" THEN "endDate" ELSE "toDate")

\* the text a POST's signature was computed over
SignedText(post) == DictGet(DictGet(post.payload, "head"), "signature")[2]

-----------------------------------------------------------------------------
(* Properties *)

\* C1: every tool invocation, whatever its input (a time_range that is not a
\* decimal integer included), ends by returning a value: no exception leaves
\* the tool function.
C1_NoExceptionLeavesTool == Called => call.raised = "none"

\* C2: create_payment_link with neither an email nor a mobile (each None, ""
\* or "null") returns a clarification and never enters
\* PaymentService.create_payment_link, so nothing is built, signed or sent.
C2_NoContactAsksInsteadOfCalling ==
    ( /\ call.op = "create_payment_link"
      /\ Normalize(call.args.customer_email) = NoneV
      /\ Normalize(call.args.customer_mobile) = NoneV )
    => /\ call.svcCalls = 0
       /\ call.posts = <<>>
       /\ call.result.prefix = "clarification needed"

C4_RetryCountsAndOutcome ==
    (rt.pc \in {"returned", "raised"} /\ rt.max_retries >= 1)
    => LET n    == Len(rt.outcomes)
           last == rt.outcomes[n]
       IN  /\ n \in 1..rt.max_retries
           /\ \A i \in 1..(n - 1) : MakeRequestRaises(rt.outcomes[i])
           /\ rt.pc = "returned" <=> ~MakeRequestRaises(last)
           /\ rt.pc = "returned" => rt.result = last /\ rt.exc = <<>>
           /\ rt.pc = "raised" => n = rt.max_retries /\ rt.exc = <<ExceptionOf(last), n>>

C4_Witness ==
    /\ rt.pc = "returned"
    /\ rt.max_retries = 3
    /\ Len(rt.outcomes) = 3
    /\ MakeRequestRaises(rt.outcomes[1]) /\ MakeRequestRaises(rt.outcomes[2])
    /\ rt.result = rt.outcomes[3]

\* C5: a 2xx answer with a decodable body ends the transport's work: the
\* parsed body is returned and no further network call is made, whatever the
\* result status in it (answered so at once, exactly one call is made).
C5_ParsedAnswerIsNeverRetried ==
    \A i \in 1..Len(rt.outcomes) :
        Parsed2xx(rt.outcomes[i])
        => /\ i = Len(rt.outcomes)
           /\ rt.pc = "returned"
           /\ rt.result = rt.outcomes[i]

C5_Witness ==
    /\ rt.pc = "returned"
    /\ Len(rt.outcomes) = 1
    /\ rt.outcomes[1].code = 200
    /\ rt.outcomes[1].st = "FAILURE"
    /\ rt.result = rt.outcomes[1]

\* C6: in every POST, the text the signature was computed over is the
\* serialisation of the body the envelope carries: same content, same key
\* order, every optional field already set.  (create_payment_link issues no
\* POST; the envelope its builder yields for the arguments is held to the same.)
C6_SignedBodyIsSentBody ==
    /\ \A i \in 1..Len(call.posts) :
          SignedText(call.posts[i]) = JsonDumps(BodyOf(call.posts[i]))
    /\ call.op = "create_payment_link"
       => LET env == CreateLinkPayload(mid, merchant_key, call.svcArgs)
          IN  DictGet(DictGet(env, "head"), "signature")[2] = JsonDumps(DictGet(env, "body"))

C6_Witness ==
    /\ call.op = "fetch_order_list"
    /\ Len(call.posts) = 1
    /\ DictHas(BodyOf(call.posts[1]), "orderSearchStatus")
    /\ SignedText(call.posts[1]) = JsonDumps(BodyOf(call.posts[1]))

\* C7: for each list tool, a 2xx answer whose result status is success and
\* which carries no record (an empty collection, or no collection at all)
\* yields the tool's 'no records' text, never a failure.
C7_NoRecordsIsNotFailure ==
    ( /\ call.op \in ListTools
      /\ call.posts # <<>>
      /\ Parsed2xx(call.resp)
      /\ call.resp.st = "SUCCESS"
      /\ call.resp.coll = <<>> )
    => call.result.prefix \in NoRecordTexts

\* C8: for every tool, a 2xx decodable answer whose result status is present
\* and not success, and which carries a message, yields a result that is no
\* success and contains that message unchanged.
C8_RejectionMessagePreserved ==
    ( /\ Called
      /\ call.posts # <<>>
      /\ Parsed2xx(call.resp)
      /\ call.resp.st \notin {Absent, "SUCCESS", "PENDING"}
      /\ call.resp.msg # Absent )
    => /\ call.result.prefix \notin SuccessTexts \cup NoRecordTexts
       /\ call.result.msg = call.resp.msg

\* C9: in fetch_refund_list and fetch_order_list, when both explicit bounds
\* are given (non-empty), the service and the request body get exactly the
\* given strings, for every time_range, and the clock is not read.
C9_ExplicitBoundsVerbatim ==
    (call.op \in DateTools /\ Truthy(GivenStart) /\ Truthy(GivenEnd))
    => /\ call.clockReads = 0
       /\ call.raised = "none"
       /\ call.svcCalls = 1
       /\ SentStart = GivenStart /\ SentEnd = GivenEnd
       /\ \A i \in 1..Len(call.posts) :
             BodyStart(call.posts[i]) = GivenStart /\ BodyEnd(call.posts[i]) = GivenEnd

C9_Witness ==
    /\ call.op = "fetch_refund_list"
    /\ call.args.time_range = <<"3", "0">>
    /\ call.args.start_date = Ist(ExplicitFrom)
    /\ call.args.end_date = Ist(ExplicitTo)
    /\ Len(call.posts) = 1
    /\ BodyStart(call.posts[1]) = Ist(ExplicitFrom)
    /\ BodyEnd(call.posts[1]) = Ist(ExplicitTo)

\* C10: when the explicit bounds are not both given, the resolved end is the
\* current instant and the resolved start is the end minus exactly
\* relativeDays days, also when the clock advances during the call.
C10_SpanIsRelativeDays ==
    ( /\ call.op \in DateTools
      /\ ~(Truthy(GivenStart) /\ Truthy(GivenEnd))
      /\ PyInt(call.args.time_range).ok )
    => /\ SentEnd = Strftime(call.t2)
       /\ SentEnd[2] - SentStart[2] = PyInt(call.args.time_range).val * DaySecs

\* e and s are instants and e is strictly later than s
IsAfter(e, s) == e[1] = "ist" /\ s[1] = "ist" /\ e[2] > s[2]

\* C11: every date range in the body of a POST of fetch_refund_list or
\* fetch_order_list has its end strictly after its start, for every
\* time_range ("0" and negative day counts included) and every pair of
\* explicit bounds.
C11_EndAfterStart ==
    call.op \in DateTools
    => \A i \in 1..Len(call.posts) :
          IsAfter(BodyEnd(call.posts[i]), BodyStart(call.posts[i]))

\* C12: every create_payment_link invocation that enters the service sends
\* one POST to /link/create whose body has sendEmail true exactly when an
\* email is present and sendSms true exactly when a mobile is present, and
\* the signature is computed over that body.
C12_ContactFlagsSignedAndSent ==
    (call.op = "create_payment_link" /\ call.svcCalls = 1)
    => /\ Len(call.posts) = 1
       /\ LET p == call.posts[1]
              b == BodyOf(p)
          IN  /\ p.path = "/link/create"
              /\ DictGet(b, "sendEmail") = Bool(call.svcArgs.customer_email # NoneV)
              /\ DictGet(b, "sendSms") = Bool(call.svcArgs.customer_mobile # NoneV)
              /\ SignedText(p) = JsonDumps(b)

\* C13: the body create_payment_link sends has linkType GENERIC and no key
\* `amount` exactly when no amount was given, and otherwise linkType FIXED
\* and the given amount under `amount`.
C13_LinkTypeFollowsAmount ==
    (call.op = "create_payment_link" /\ call.svcCalls = 1)
    => /\ call.posts # <<>>
       /\ \A i \in 1..Len(call.posts) :
             LET b == BodyOf(call.posts[i])
             IN  IF call.svcArgs.amount = NoneV
                 THEN DictGet(b, "linkType") = Str("GENERIC") /\ ~DictHas(b, "amount")
                 ELSE /\ DictGet(b, "linkType") = Str("FIXED")
                      /\ DictHas(b, "amount")
                      /\ DictGet(b, "amount") = call.svcArgs.amount

\* C14: the refundAmount of the body initiate_refund signs and sends is the
\* given amount as a decimal string with exactly two digits after the point:
\* the nearest hundredth, and the amount itself when it has no more than two
\* decimals (100 gives "100.00").
C14_RefundAmountTwoDecimals ==
    call.op = "initiate_refund"
    => /\ Len(call.posts) = 1
       /\ \A i \in 1..Len(call.posts) :
             LET b == BodyOf(call.posts[i])
                 v == DictGet(b, "refundAmount")
                 x == call.args.refund_amount
             IN  /\ v[1] = "dec" /\ v[2] = 2
                 /\ 10 * v[3] - x \in -5..5
                 /\ x % 10 = 0 => 10 * v[3] = x
                 /\ SignedText(call.posts[i]) = JsonDumps(b)

C14_Witness ==
    /\ call.op = "initiate_refund"
    /\ call.args.refund_amount = 100000
    /\ Len(call.posts) = 1
    /\ DictGet(BodyOf(call.posts[1]), "refundAmount") = <<"dec", 2, 10000>>
    /\ SignedText(call.posts[1]) = JsonDumps(BodyOf(call.posts[1]))

\* the inputs that stand for 'not given'
Sentinels == { Str(""), Str("null") }

\* C16: an optional parameter given as "" or "null" is absent by the time
\* the service is called: neither the service's arguments nor a request body
\* carry the sentinel (customer_email, customer_mobile and amount of
\* create_payment_link; the explicit bounds of the two date tools).
C16_SentinelsNeverReachService ==
    call.svcCalls = 1
    => /\ call.op = "create_payment_link"
          => /\ call.svcArgs.customer_email \notin Sentinels
             /\ call.svcArgs.customer_mobile \notin Sentinels
             /\ call.svcArgs.amount \notin Sentinels
       /\ call.op \in DateTools
          => /\ SentStart \notin Sentinels /\ SentEnd \notin Sentinels
             /\ \A i \in 1..Len(call.posts) :
                   /\ BodyStart(call.posts[i]) \notin Sentinels
                   /\ BodyEnd(call.posts[i]) \notin Sentinels

\* C19: when fetch_refund_list gets a success answer, each record of the
\* answer is in the returned list (with fallbacks where a field is missing),
\* or the value returned is a failure.
C19_NoRecordDroppedSilently ==
    ( /\ call.op = "fetch_refund_list"
      /\ call.posts # <<>>
      /\ Parsed2xx(call.resp)
      /\ call.resp.st = "SUCCESS" )
    => \/ IsFailure(call.result)
       \/ \A i \in 1..Len(call.resp.coll) :
             \E j \in 1..Len(call.result.recs) :
                call.result.recs[j].id = call.resp.coll[i].id

\* C20: an explicit start or end the caller gives to fetch_refund_list or
\* fetch_order_list is the start or end every request body carries, also
\* when the other bound is not given.
C20_SuppliedBoundKept ==
    call.op \in DateTools
    => \A i \in 1..Len(call.posts) :
          /\ GivenStart[1] = "ist" => BodyStart(call.posts[i]) = GivenStart
          /\ GivenEnd[1] = "ist" => BodyEnd(call.posts[i]) = GivenEnd

ReadTools == {"fetch_payment_links", "fetch_transactions_for_link", "check_refund_status"}

Configured(env) == Truthy(env.PAYTM_MID) /\ Truthy(env.PAYTM_MERCHANT_KEY)

\* C17: service initialisation ends the process exactly when the merchant id
\* or the signing secret is missing: with both configured the services are
\* constructed and the tools become callable.
C17_CredentialsDecideStartup ==
    boot.phase \in {"constructed", "exited"}
    => (boot.phase = "constructed" <=> Configured(boot.env))

\* C21: one invocation of initiate_refund issues at most one POST, to
\* /refund/apply and with the given refId, whatever the gateway answers
\* (connection error, timeout, non-2xx status, undecodable body, rejection).
C21_RefundSubmittedOnce ==
    call.op = "initiate_refund"
    => /\ Len(call.posts) <= 1
       /\ \A i \in 1..Len(call.posts) :
             /\ call.posts[i].path = "/refund/apply"
             /\ DictGet(BodyOf(call.posts[i]), "refId") = call.args.refund_reference_id

C21_Witness ==
    /\ call.op = "initiate_refund"
    /\ call.resp.net = "http" /\ call.resp.code = 500 /\ call.resp.text = "garbage"
    /\ Len(call.posts) = 1
    /\ call.posts[1].path = "/refund/apply"
    /\ IsFailure(call.result)

====
